---- MODULE Spec2Model ----
(***************************************************************************)
(* A model of the floor-plan image pipeline of src/src/App.tsx:            *)
(* ImageProcessor (processImage, analyzeFloorPlan, findContours,           *)
(* traceContour, classifyContours, calculateArea, getBounds) and of the    *)
(* App component that drives it (handleFileSelect).                        *)
(*                                                                         *)
(* The specifications of the module:                                       *)
(*   SpecTrace    findContours / traceContour, one loop iteration a step,  *)
(*                started on an edge mask;                                 *)
(*   SpecClassify classifyContours, one contour a step, started on a list  *)
(*                of contours and an image size;                           *)
(*   Spec         App.handleFileSelect and ImageProcessor.processImage,    *)
(*                one handler (or promise continuation) a step;            *)
(*   SpecEdges    detectEdges, started on a pixel buffer;                  *)
(*   SpecExport   ExportOptions.exportToOBJ, started on a result;          *)
(*   SpecTraceFair  SpecTrace with the fairness of synchronous code.       *)
(***************************************************************************)
EXTENDS Integers, Sequences, FiniteSets

VARIABLES
  \* ---- findContours / traceContour (SpecTrace) ----
  edges,      \* the ImageData argument: [width, height, data]
  x, y,       \* the loop counters of findContours
  visited,    \* findContours' `visited` set of keys
  contours,   \* findContours' `contours` array
  stack,      \* traceContour's `stack`
  contour,    \* traceContour's `contour`
  pc,         \* "scan" (findContours' loops), "trace" (inside traceContour),
              \* "done" (findContours has returned), "classify" (classifyContours'
              \* loop), "classified" (classifyContours has returned), "idle" (the
              \* pipeline is not running), "detect" and "detected" (before and
              \* after detectEdges, in SpecEdges), "export" and "exported"
              \* (before and after exportToOBJ, in SpecExport)
  dropped,    \* history: the arrays traceContour returned that findContours did
              \* not keep (line 308), in order
  \* ---- classifyContours (SpecClassify); its `contours` argument is contours ----
  width, height,                \* classifyContours' arguments width and height
  ci,                           \* position of its for..of loop (1-based)
  walls, doors, windows, rooms, \* its four result arrays
  \* ---- App and ImageProcessor.processImage (Spec) ----
  processingResult,   \* App state: the ProcessingResult shown, or null
  isProcessing,       \* App state
  uploadedImage,      \* App state: the object URL of the file selected last, or null
  calls,              \* the calls of handleFileSelect, in order: for each its file,
                      \* its position, its processor's canvas, its promise, the
                      \* pipeline stage it reached and its rank among the calls
                      \* that have returned
  active,             \* the call whose img.onload handler is running (0: none)
  microtask,          \* the call whose await continuation is queued (0: none)
  scale,              \* analyzeFloorPlan's `scale` in the running handler
  alerts,             \* number of alert() notices shown
  \* ---- detectEdges on its own (SpecEdges) ----
  imageData,          \* detectEdges' argument: [width, height, data], data the
                      \* <<r, g, b>> of each pixel in raster order.  In Spec the
                      \* buffer lives inside the one step that draws the image and
                      \* detects its edges, and the variable stays empty.
  \* ---- ExportOptions.exportToOBJ (SpecExport) ----
  objContent          \* exportToOBJ's `objContent`, a sequence of lines

traceVars == <<edges, x, y, visited, stack, contour, dropped>>
classVars == <<width, height, ci, walls, doors, windows, rooms>>
appVars == <<processingResult, isProcessing, uploadedImage, calls, active,
             microtask, scale, alerts>>

vars == <<traceVars, contours, pc, classVars, appVars, imageData, objContent>>

(***************************************************************************)
(* Program constants.                                                      *)
(***************************************************************************)
MaxContourPoints == 1000
MinContourSize == 10
EdgeThreshold == 128
MaxDim == 800
MagnitudeThreshold == 50

(***************************************************************************)
(* Points, keys and the edge mask.                                         *)
(***************************************************************************)
\* { x: ..., y: ... }
Point(px, py) == [x |-> px, y |-> py]

PointSet(seq) == { seq[i] : i \in 1..Len(seq) }

\* `${x},${y}`: the decimal renderings of two integers joined by a comma.  The
\* string determines both integers, so the key is modelled as the pair.
Key(px, py) == <<px, py>>

\* edges.data[(y * width + x) * 4]: the red channel of pixel (x, y).  The model's
\* data keeps that one channel per pixel, as a sequence: the pixel at offset
\* y*width + x is its element y*width + x + 1.
DataAt(img, px, py) == img.data[py * img.width + px + 1]

IsEdge(img, px, py) == DataAt(img, px, py) > EdgeThreshold

(***************************************************************************)
(* traceContour: one iteration of its while loop on the frame              *)
(* t = [stack, contour, visited].                                          *)
(***************************************************************************)
\* (variant: the four edge-sharing neighbours only)
NeighbourOffsets4 == << <<0, -1>>, <<-1, 0>>, <<1, 0>>, <<0, 1>> >>

\* The (dx, dy) pairs in the order of the two nested for loops (dy outer).
NeighbourOffsets ==
  << <<-1, -1>>, <<0, -1>>, <<1, -1>>,
     <<-1,  0>>, <<0,  0>>, <<1,  0>>,
     <<-1,  1>>, <<0,  1>>, <<1,  1>> >>

\* while (stack.length > 0 && contour.length < 1000)
TraceGuard(t) == Len(t.stack) > 0 /\ Len(t.contour) < MaxContourPoints

RECURSIVE PushNeighbours(_, _, _, _, _)
PushNeighbours(img, point, vis, stk, k) ==
  IF k > Len(NeighbourOffsets) THEN stk
  ELSE LET nx == point.x + NeighbourOffsets[k][1]
           ny == point.y + NeighbourOffsets[k][2]
       IN IF /\ nx >= 0 /\ nx < img.width /\ ny >= 0 /\ ny < img.height
             /\ Key(nx, ny) \notin vis
          THEN PushNeighbours(img, point, vis, Append(stk, Point(nx, ny)), k + 1)
          ELSE PushNeighbours(img, point, vis, stk, k + 1)

\* (variant: a pixel is marked visited when it is pushed, not when it is popped)
RECURSIVE PushAndMark(_, _, _, _)
PushAndMark(img, point, t, k) ==
  IF k > Len(NeighbourOffsets) THEN t
  ELSE LET nx == point.x + NeighbourOffsets[k][1]
           ny == point.y + NeighbourOffsets[k][2]
       IN IF /\ nx >= 0 /\ nx < img.width /\ ny >= 0 /\ ny < img.height
             /\ Key(nx, ny) \notin t.visited
          THEN PushAndMark(img, point,
                           [t EXCEPT !.stack = Append(@, Point(nx, ny)),
                                     !.visited = @ \cup {Key(nx, ny)}], k + 1)
          ELSE PushAndMark(img, point, t, k + 1)

TraceBodyMarkOnPush(img, t) ==
  LET point  == t.stack[Len(t.stack)]
      popped == SubSeq(t.stack, 1, Len(t.stack) - 1)
      vis    == t.visited \cup {Key(point.x, point.y)}
  IN IF IsEdge(img, point.x, point.y)
     THEN PushAndMark(img, point,
                      [stack |-> popped, contour |-> Append(t.contour, point),
                       visited |-> vis], 1)
     ELSE [stack |-> popped, contour |-> t.contour, visited |-> vis]

\* (variant: the popped pixel is not checked against the visited set)
TraceBodyNoVisitedCheck(img, t) ==
  LET point  == t.stack[Len(t.stack)]
      popped == SubSeq(t.stack, 1, Len(t.stack) - 1)
      vis    == t.visited \cup {Key(point.x, point.y)}
  IN IF IsEdge(img, point.x, point.y)
     THEN [stack   |-> PushNeighbours(img, point, vis, popped, 1),
           contour |-> Append(t.contour, point),
           visited |-> vis]
     ELSE [stack |-> popped, contour |-> t.contour, visited |-> vis]

\* (variant: a pixel found visited is left on the stack)
TraceBodyNoPop(img, t) ==
  LET point  == t.stack[Len(t.stack)]
      popped == SubSeq(t.stack, 1, Len(t.stack) - 1)
      key    == Key(point.x, point.y)
  IN IF key \in t.visited
     THEN t
     ELSE LET vis == t.visited \cup {key}
          IN IF IsEdge(img, point.x, point.y)
             THEN [stack   |-> PushNeighbours(img, point, vis, popped, 1),
                   contour |-> Append(t.contour, point),
                   visited |-> vis]
             ELSE [stack |-> popped, contour |-> t.contour, visited |-> vis]

\* (variant: every pixel popped for the first time is collected, edge or not)
TraceBodyNoEdgeTest(img, t) ==
  LET point  == t.stack[Len(t.stack)]
      popped == SubSeq(t.stack, 1, Len(t.stack) - 1)
      key    == Key(point.x, point.y)
  IN IF key \in t.visited
     THEN [t EXCEPT !.stack = popped]
     ELSE LET vis == t.visited \cup {key}
          IN [stack   |-> PushNeighbours(img, point, vis, popped, 1),
              contour |-> Append(t.contour, point),
              visited |-> vis]

\* One iteration of the while loop, on t = [stack, contour, visited].
TraceBody(img, t) ==
  LET point  == t.stack[Len(t.stack)]
      popped == SubSeq(t.stack, 1, Len(t.stack) - 1)
      key    == Key(point.x, point.y)
  IN IF key \in t.visited
     THEN [t EXCEPT !.stack = popped]
     ELSE LET vis == t.visited \cup {key}
          IN IF IsEdge(img, point.x, point.y)
             THEN [stack   |-> PushNeighbours(img, point, vis, popped, 1),
                   contour |-> Append(t.contour, point),
                   visited |-> vis]
             ELSE [stack |-> popped, contour |-> t.contour, visited |-> vis]

(***************************************************************************)
(* The App's state and the calls of handleFileSelect.                      *)
(***************************************************************************)
MaxUploads == 2

Null == [kind |-> "null"]
NoValue == [kind |-> "none"]
Error(name) == [kind |-> "error", name |-> name]

NoCall ==
  [file |-> Null, via |-> "none", pc |-> "none", promise |-> "pending",
   value |-> NoValue, resolves |-> 0, rejects |-> 0,
   canvas |-> [width |-> 0, height |-> 0], stage |-> "none", order |-> 0]

\* No pixel buffer.
NoImageData == [width |-> 0, height |-> 0, data |-> <<>>]

\* The App as mounted, before any file is selected.
AppIdle ==
  /\ processingResult = Null
  /\ isProcessing = FALSE
  /\ uploadedImage = Null
  /\ calls = [i \in 1..MaxUploads |-> NoCall]
  /\ active = 0
  /\ microtask = 0
  /\ scale = [num |-> 1, den |-> 1]
  /\ alerts = 0


(***************************************************************************)
(* Edge masks the tracer is started on.                                    *)
(***************************************************************************)
SmallW == 4
BigW == 36
CapOvershoot == 30

\* An ImageData of w x h pixels whose edge pixels (value 255) are the set E of
\* pixel offsets; every other pixel is 0, as `new ImageData` leaves it.
Mask(w, h, E) ==
  [width |-> w, height |-> h,
   data |-> [i \in 1..(w * h) |-> IF (i - 1) \in E THEN 255 ELSE 0]]

\* Every mask of a SmallW x 3 image.
SmallMasks == { Mask(SmallW, 3, E) : E \in SUBSET (0..(SmallW * 3 - 1)) }

\* A solid block: the first n pixels, in raster order, of an image BigW wide.
BlockMask(n) == Mask(BigW, (n + BigW - 1) \div BigW, 0..(n - 1))

BigMasks ==
  { BlockMask(n) : n \in { MaxContourPoints - 1, MaxContourPoints,
                           MaxContourPoints + 1,
                           MaxContourPoints + CapOvershoot } }

\* Two disjoint blobs, of 50 pixels (10 x 5) and of 5 pixels (5 x 1), in a
\* 12 x 8 image.
TwoBlobMask ==
  Mask(12, 8, { py * 12 + px : px \in 1..10, py \in 1..5 }
              \cup { 7 * 12 + px : px \in 1..5 })

\* Two staircases of 12 pixels joined corner to corner only, one descending to
\* the right and one to the left, each in its own 12 x 12 image.
DiagonalMasks ==
  { Mask(12, 12, { i * 12 + i : i \in 0..11 }),
    Mask(12, 12, { i * 12 + (11 - i) : i \in 0..11 }) }

TraceMasks == SmallMasks \cup BigMasks \cup {TwoBlobMask} \cup DiagonalMasks

(***************************************************************************)
(* findContours, one loop step an action.                                  *)
(***************************************************************************)
InitTrace ==
  /\ edges \in TraceMasks
  /\ x = 0 /\ y = 0
  /\ visited = {}
  /\ contours = <<>>
  /\ stack = <<>>
  /\ contour = <<>>
  /\ pc = "scan"
  /\ dropped = <<>>
  /\ width = 0 /\ height = 0 /\ ci = 0
  /\ walls = <<>> /\ doors = <<>> /\ windows = <<>> /\ rooms = <<>>
  /\ AppIdle
  /\ imageData = NoImageData
  /\ objContent = <<>>

\* for (let y = 0; y < height; y++): the outer loop ends, findContours returns.
ScanDone ==
  /\ pc = "scan" /\ y >= edges.height
  /\ pc' = "done"
  /\ UNCHANGED <<imageData, objContent, edges, x, y, visited, contours, stack, contour, dropped, classVars, appVars>>

\* for (let x = 0; x < width; x++): the inner loop ends, the next row begins.
ScanNextRow ==
  /\ pc = "scan" /\ y < edges.height /\ x >= edges.width
  /\ y' = y + 1 /\ x' = 0
  /\ UNCHANGED <<imageData, objContent, edges, visited, contours, stack, contour, pc, dropped, classVars, appVars>>

\* The loop body for a pixel that is visited already or is no edge pixel.
ScanSkip ==
  /\ pc = "scan" /\ y < edges.height /\ x < edges.width
  /\ \/ Key(x, y) \in visited
     \/ ~IsEdge(edges, x, y)
  /\ x' = x + 1
  /\ UNCHANGED <<imageData, objContent, edges, y, visited, contours, stack, contour, pc, dropped, classVars, appVars>>

\* The loop body for an unvisited edge pixel: traceContour is entered.
ScanStartTrace ==
  /\ pc = "scan" /\ y < edges.height /\ x < edges.width
  /\ Key(x, y) \notin visited
  /\ IsEdge(edges, x, y)
  /\ stack' = <<Point(x, y)>>
  /\ contour' = <<>>
  /\ pc' = "trace"
  /\ UNCHANGED <<imageData, objContent, edges, x, y, visited, contours, dropped, classVars, appVars>>

\* One iteration of traceContour's while loop.
TraceStep ==
  /\ pc = "trace"
  /\ TraceGuard([stack |-> stack, contour |-> contour, visited |-> visited])
  /\ LET t == TraceBody(edges, [stack |-> stack, contour |-> contour,
                                visited |-> visited])
     IN /\ stack' = t.stack
        /\ contour' = t.contour
        /\ visited' = t.visited
  /\ UNCHANGED <<imageData, objContent, edges, x, y, contours, pc, dropped, classVars, appVars>>

\* (variant: a contour of exactly the minimum size is kept as well)
KeepContourAtLeast(c) == Len(c) >= MinContourSize

\* if (contour.length > 10): the minimum contour size.
KeepContour(c) == Len(c) > MinContourSize

\* traceContour returns; findContours keeps the contour if it is long enough.
TraceReturn ==
  /\ pc = "trace"
  /\ ~TraceGuard([stack |-> stack, contour |-> contour, visited |-> visited])
  /\ contours' = IF KeepContour(contour)
                 THEN Append(contours, contour) ELSE contours
  /\ dropped' = IF KeepContour(contour)
                THEN dropped ELSE Append(dropped, contour)
  /\ stack' = <<>>
  /\ contour' = <<>>
  /\ x' = x + 1
  /\ pc' = "scan"
  /\ UNCHANGED <<imageData, objContent, edges, y, visited, classVars, appVars>>

NextTrace ==
  \/ ScanDone
  \/ ScanNextRow
  \/ ScanSkip
  \/ ScanStartTrace
  \/ TraceStep
  \/ TraceReturn

SpecTrace == InitTrace /\ [][NextTrace]_vars

\* findContours is synchronous code: once called it keeps running, each loop
\* iteration following the one before.
SpecTraceFair == SpecTrace /\ WF_vars(NextTrace)


(***************************************************************************)
(* classifyContours and its helpers calculateArea and getBounds.           *)
(*                                                                         *)
(* Numbers that are not integers are kept exact: an area is the rational   *)
(* [num, den] (calculateArea divides an integer by 2), compared by cross   *)
(* multiplication.                                                         *)
(***************************************************************************)
Abs(n) == IF n < 0 THEN -n ELSE n

Rat(n, d) == [num |-> n, den |-> d]
RatGT(a, b) == a.num * b.den > b.num * a.den
RatLE(a, b) == a.num * b.den <= b.num * a.den
RatEq(a, b) == a.num * b.den = b.num * a.den

\* The two statements of calculateArea's loop body for index i (0-based i in
\* the code, j = (i + 1) % length; here i is 1-based).
AreaTerm(points, i) ==
  LET j == (i % Len(points)) + 1
  IN points[i].x * points[j].y - points[j].x * points[i].y

\* The value the loop has added for the indices lo..hi.  Integer addition is
\* associative, so the terms are summed in halves to keep the evaluation shallow.
RECURSIVE AreaLoop(_, _, _)
AreaLoop(points, lo, hi) ==
  IF lo > hi THEN 0
  ELSE IF lo = hi THEN AreaTerm(points, lo)
  ELSE LET mid == (lo + hi) \div 2
       IN AreaLoop(points, lo, mid) + AreaLoop(points, mid + 1, hi)

\* (variant: the absolute sum, not halved)
CalculateAreaNotHalved(points) ==
  IF Len(points) < 3 THEN Rat(0, 1)
  ELSE Rat(Abs(AreaLoop(points, 1, Len(points))), 1)

CalculateArea(points) ==
  IF Len(points) < 3 THEN Rat(0, 1)
  ELSE Rat(Abs(AreaLoop(points, 1, Len(points))), 2)

SetMin(S) == CHOOSE m \in S : \A k \in S : m <= k
SetMax(S) == CHOOSE m \in S : \A k \in S : m >= k

\* getBounds, for a non-empty array of points (findContours returns no other).
GetBounds(points) ==
  LET xs == { points[i].x : i \in 1..Len(points) }
      ys == { points[i].y : i \in 1..Len(points) }
      minX == SetMin(xs)
      maxX == SetMax(xs)
      minY == SetMin(ys)
      maxY == SetMax(ys)
  IN [minX |-> minX, maxX |-> maxX, minY |-> minY, maxY |-> maxY,
      width |-> maxX - minX, height |-> maxY - minY]

\* aspect = bounds.width / (bounds.height + 1e-9), with integers width and
\* height >= 0.  The quotient is kept as its two operands, and compared with a
\* literal n/d (n, d > 0, n * 1e-9 < 1) exactly:
\*   aspect > n/d  iff  d*width > n*height + n*1e-9  iff  d*width >  n*height
\*   aspect < n/d  iff  d*width < n*height + n*1e-9  iff  d*width <= n*height
\* since d*width and n*height are integers.
Aspect(bounds) == [width |-> bounds.width, height |-> bounds.height]
AspectGT(a, n, d) == d * a.width > n * a.height
AspectLT(a, n, d) == d * a.width <= n * a.height

\* (variant: the wall of the medium branch is pushed with the tag of a door)
ClassifyOneWrongTag(points, w, h, acc) ==
  LET area   == CalculateArea(points)
      bounds == GetBounds(points)
      aspect == Aspect(bounds)
      c(t)   == [points |-> points, area |-> area, type |-> t]
  IN IF RatGT(area, Rat(5000, 1))
     THEN LET touchesBoundary ==
                \/ bounds.minX <= 5 \/ bounds.minY <= 5
                \/ bounds.maxX >= w - 5 \/ bounds.maxY >= h - 5
          IN IF touchesBoundary \/ AspectGT(aspect, 3, 1) \/ AspectLT(aspect, 33, 100)
             THEN [acc EXCEPT !.walls = Append(@, c("wall"))]
             ELSE [acc EXCEPT !.rooms = Append(@, c("room"))]
     ELSE IF RatGT(area, Rat(1000, 1)) /\ RatLE(area, Rat(5000, 1))
     THEN IF AspectGT(aspect, 2, 5) /\ AspectLT(aspect, 5, 2)
          THEN [acc EXCEPT !.doors = Append(@, c("door"))]
          ELSE [acc EXCEPT !.walls = Append(@, c("door"))]
     ELSE IF RatGT(area, Rat(200, 1)) /\ RatLE(area, Rat(1000, 1))
     THEN IF AspectGT(aspect, 2, 1) \/ AspectLT(aspect, 1, 2)
          THEN [acc EXCEPT !.windows = Append(@, c("window"))]
          ELSE acc
     ELSE acc

\* (variant: the boundary test with < and > for <= and >=)
ClassifyOneStrictBoundary(points, w, h, acc) ==
  LET area   == CalculateArea(points)
      bounds == GetBounds(points)
      aspect == Aspect(bounds)
      c(t)   == [points |-> points, area |-> area, type |-> t]
  IN IF RatGT(area, Rat(5000, 1))
     THEN LET touchesBoundary ==
                \/ bounds.minX < 5 \/ bounds.minY < 5
                \/ bounds.maxX > w - 5 \/ bounds.maxY > h - 5
          IN IF touchesBoundary \/ AspectGT(aspect, 3, 1) \/ AspectLT(aspect, 33, 100)
             THEN [acc EXCEPT !.walls = Append(@, c("wall"))]
             ELSE [acc EXCEPT !.rooms = Append(@, c("room"))]
     ELSE IF RatGT(area, Rat(1000, 1)) /\ RatLE(area, Rat(5000, 1))
     THEN IF AspectGT(aspect, 2, 5) /\ AspectLT(aspect, 5, 2)
          THEN [acc EXCEPT !.doors = Append(@, c("door"))]
          ELSE [acc EXCEPT !.walls = Append(@, c("wall"))]
     ELSE IF RatGT(area, Rat(200, 1)) /\ RatLE(area, Rat(1000, 1))
     THEN IF AspectGT(aspect, 2, 1) \/ AspectLT(aspect, 1, 2)
          THEN [acc EXCEPT !.windows = Append(@, c("window"))]
          ELSE acc
     ELSE acc

\* The body of classifyContours' loop for one contour; acc holds the four arrays.
ClassifyOne(points, w, h, acc) ==
  LET area   == CalculateArea(points)
      bounds == GetBounds(points)
      aspect == Aspect(bounds)
      c(t)   == [points |-> points, area |-> area, type |-> t]
  IN IF RatGT(area, Rat(5000, 1))
     THEN LET touchesBoundary ==
                \/ bounds.minX <= 5 \/ bounds.minY <= 5
                \/ bounds.maxX >= w - 5 \/ bounds.maxY >= h - 5
          IN IF touchesBoundary \/ AspectGT(aspect, 3, 1) \/ AspectLT(aspect, 33, 100)
             THEN [acc EXCEPT !.walls = Append(@, c("wall"))]
             ELSE [acc EXCEPT !.rooms = Append(@, c("room"))]
     ELSE IF RatGT(area, Rat(1000, 1)) /\ RatLE(area, Rat(5000, 1))
     THEN IF AspectGT(aspect, 2, 5) /\ AspectLT(aspect, 5, 2)
          THEN [acc EXCEPT !.doors = Append(@, c("door"))]
          ELSE [acc EXCEPT !.walls = Append(@, c("wall"))]
     ELSE IF RatGT(area, Rat(200, 1)) /\ RatLE(area, Rat(1000, 1))
     THEN IF AspectGT(aspect, 2, 1) \/ AspectLT(aspect, 1, 2)
          THEN [acc EXCEPT !.windows = Append(@, c("window"))]
          ELSE acc
     ELSE acc

\* for (const points of contours): one iteration.
ClassifyStep ==
  /\ pc = "classify" /\ ci <= Len(contours)
  /\ LET acc == ClassifyOne(contours[ci], width, height,
                            [walls |-> walls, doors |-> doors,
                             windows |-> windows, rooms |-> rooms])
     IN /\ walls' = acc.walls
        /\ doors' = acc.doors
        /\ windows' = acc.windows
        /\ rooms' = acc.rooms
  /\ ci' = ci + 1
  /\ UNCHANGED <<imageData, objContent, traceVars, contours, pc, width, height, appVars>>

\* return { walls, doors, windows, rooms }
ClassifyReturn ==
  /\ pc = "classify" /\ ci > Len(contours)
  /\ pc' = "classified"
  /\ UNCHANGED <<imageData, objContent, traceVars, contours, classVars, appVars>>


(***************************************************************************)
(* Contours classifyContours is started on.  A contour is the outline of a *)
(* rectangle, one pixel thick and w >= 2 wide, in the order traceContour   *)
(* collects it from the top-left corner: down the left side, along the     *)
(* bottom (the bottom-left corner is passed diagonally), up the right      *)
(* side, back along the top, and the bottom-left corner last.  Its         *)
(* bounding box is w x h and its shoelace area w*h - (h + 1)/2.            *)
(***************************************************************************)
InteriorOffset == 20

Ring(x0, y0, w, h) ==
  [i \in 1..(2 * (w + h)) |->
     IF i <= h THEN Point(x0, y0 + (i - 1))
     ELSE IF i <= h + w THEN Point(x0 + (i - h), y0 + h)
     ELSE IF i <= 2 * h + w THEN Point(x0 + w, y0 + h - (i - h - w))
     ELSE IF i <= 2 * h + 2 * w - 1 THEN Point(x0 + w - (i - 2 * h - w), y0)
     ELSE Point(x0, y0 + h)]

\* Bounding boxes <<w, h>> on both sides of every threshold of area (69 x 73
\* has area 5000, 15 x 69 area 1000, 201 x 1 area 200) and of aspect.
RingSizes ==
  { <<100, 60>>, <<150, 50>>, <<151, 50>>, <<66, 200>>, <<65, 200>>, <<67, 200>>,
    <<69, 73>>, <<70, 73>>, <<50, 40>>, <<100, 40>>, <<101, 40>>, <<40, 100>>,
    <<41, 100>>, <<15, 69>>, <<16, 69>>, <<35, 29>>, <<20, 40>>, <<21, 40>>,
    <<40, 20>>, <<41, 20>>, <<201, 1>>, <<202, 1>>, <<3, 3>> }

CanvasSizes == { <<300, 300>>, <<400, 320>> }

\* Top-left corners for a w x h box in a cw x ch image: at and next to each of
\* the four 5-pixel margins, and well inside.
RingCorners(cw, ch, w, h) ==
  { <<5, InteriorOffset>>, <<InteriorOffset, 5>>, <<6, 6>>,
    <<cw - 5 - w, InteriorOffset>>, <<InteriorOffset, ch - 5 - h>>,
    <<cw - 6 - w, ch - 6 - h>>, <<InteriorOffset, InteriorOffset>> }

Rings(cw, ch) ==
  UNION { { Ring(c[1], c[2], sz[1], sz[2]) : c \in RingCorners(cw, ch, sz[1], sz[2]) } :
          sz \in RingSizes }

\* A wall, a door and a window, classified ahead of the contour under test.
FirstRings == { Ring(InteriorOffset, InteriorOffset, 200, 30),
                Ring(InteriorOffset, InteriorOffset, 50, 40),
                Ring(InteriorOffset, InteriorOffset, 10, 40) }

\* The lists of contours: none, one, or one of FirstRings and another disjoint
\* from it (findContours returns disjoint contours).
ContourLists(cw, ch) ==
  {<<>>} \cup { <<r>> : r \in Rings(cw, ch) }
         \cup { <<q[1], q[2]>> :
                  q \in { q \in FirstRings \X Rings(cw, ch) :
                            PointSet(q[1]) \cap PointSet(q[2]) = {} } }

InitClassify ==
  /\ \E cs \in CanvasSizes :
       /\ width = cs[1] /\ height = cs[2]
       /\ contours \in ContourLists(cs[1], cs[2])
  /\ ci = 1
  /\ walls = <<>> /\ doors = <<>> /\ windows = <<>> /\ rooms = <<>>
  /\ pc = "classify"
  /\ edges = Mask(0, 0, {})
  /\ x = 0 /\ y = 0
  /\ visited = {}
  /\ stack = <<>>
  /\ contour = <<>>
  /\ dropped = <<>>
  /\ AppIdle
  /\ imageData = NoImageData
  /\ objContent = <<>>

NextClassify ==
  \/ ClassifyStep
  \/ ClassifyReturn

SpecClassify == InitClassify /\ [][NextClassify]_vars

(***************************************************************************)
(* The files a user selects.  A decodable file is an opaque image: its     *)
(* natural width and height and its pixels, `ink` at the offsets in        *)
(* `inked` and `background` elsewhere; a colour is <<r, g, b>>.            *)
(***************************************************************************)
White == <<255, 255, 255>>
Black == <<0, 0, 0>>

Image(w, h, bg, ink, inked) ==
  [kind |-> "file", decodable |-> TRUE, width |-> w, height |-> h,
   background |-> bg, ink |-> ink, inked |-> inked]

\* A file of an image MIME type whose bytes the browser cannot decode.
Undecodable ==
  [kind |-> "file", decodable |-> FALSE, width |-> 0, height |-> 0,
   background |-> Black, ink |-> Black, inked |-> {}]

\* 4 x 8, its two left columns black and its two right columns white.
StepEdgeImage ==
  Image(4, 8, White, Black, { py * 4 + px : px \in 0..1, py \in 0..7 })

\* 24 x 13, black inside a white border one pixel wide: its edge mask is one
\* ring of 62 pixels, which classifyContours makes a window.
BlockImage ==
  Image(24, 13, White, Black, { py * 24 + px : px \in 1..22, py \in 1..11 })

\* Uniform images: twice the maximum dimension long and one or three pixels
\* across, one 1078 x 2 (1078 * (800 / 1078) is a double below 800), and a
\* small square one.
Files ==
  { Undecodable,
    Image(1, 2 * MaxDim, White, Black, {}),
    Image(2 * MaxDim, 1, White, Black, {}),
    Image(1078, 2, White, Black, {}),
    Image(2 * MaxDim, 3, White, Black, {}),
    Image(3, 3, Black, Black, {}),
    StepEdgeImage,
    BlockImage }

(***************************************************************************)
(* analyzeFloorPlan up to detectEdges.                                     *)
(***************************************************************************)
RatMin(a, b) == IF RatLE(a, b) THEN a ELSE b

\* (variant: the width does not enter the scale)
ScaleHeightOnly(w, h) == RatMin(Rat(MaxDim, h), Rat(1, 1))

\* Math.min(maxDim / img.width, maxDim / img.height, 1).  Each quotient is the
\* double nearest to the fraction and is written as that fraction; rounding
\* to a double keeps the order of the fractions, and 1 is a double.
Scale(w, h) == RatMin(RatMin(Rat(MaxDim, w), Rat(MaxDim, h)), Rat(1, 1))

(***************************************************************************)
(* Numbers.  A JavaScript number is an IEEE 754 double: a sign, a          *)
(* significand of at most 53 bits and an exponent, and every division,     *)
(* product and sum is rounded to the nearest such number, a tie going to   *)
(* the even significand.  A natural number is written in base 2^15, lowest *)
(* digit first and without high zeros; a double is [neg, m, e] with value  *)
(* (neg ? -1 : 1) * m * 2^e and m below 2^53 (or 2^53 itself).  The        *)
(* numbers of this program are far from the overflow and underflow of the  *)
(* exponent.                                                               *)
(***************************************************************************)
Limb == 2^15

RECURSIVE LimbsOf(_)
LimbsOf(n) == IF n = 0 THEN <<>> ELSE <<n % Limb>> \o LimbsOf(n \div Limb)

RECURSIVE NatOf(_)
NatOf(a) == IF a = <<>> THEN 0 ELSE a[1] + Limb * NatOf(Tail(a))

LimbAt(a, i) == IF i >= 1 /\ i <= Len(a) THEN a[i] ELSE 0

RECURSIVE Trim(_)
Trim(a) ==
  IF a # <<>> /\ a[Len(a)] = 0 THEN Trim(SubSeq(a, 1, Len(a) - 1)) ELSE a

\* The digits from position i on of a + b + c, c the carry into position i.
RECURSIVE AddLimbs(_, _, _, _)
AddLimbs(a, b, i, c) ==
  IF i > Len(a) /\ i > Len(b)
  THEN IF c = 0 THEN <<>> ELSE <<c>>
  ELSE LET t == LimbAt(a, i) + LimbAt(b, i) + c
       IN <<t % Limb>> \o AddLimbs(a, b, i + 1, t \div Limb)

\* The digits from position i on of a - b - c for a >= b, c the borrow.
RECURSIVE SubLimbs(_, _, _, _)
SubLimbs(a, b, i, c) ==
  IF i > Len(a) THEN <<>>
  ELSE LET t == LimbAt(a, i) - LimbAt(b, i) - c
       IN <<(t + Limb) % Limb>> \o SubLimbs(a, b, i + 1, IF t < 0 THEN 1 ELSE 0)

LessLimbs(a, b) ==
  IF Len(a) # Len(b) THEN Len(a) < Len(b)
  ELSE LET differ == { i \in 1..Len(a) : a[i] # b[i] }
       IN differ # {} /\ a[SetMax(differ)] < b[SetMax(differ)]

\* The digits from position i on of a * d + c for one digit d.
RECURSIVE MulLimb(_, _, _, _)
MulLimb(a, d, i, c) ==
  IF i > Len(a)
  THEN IF c = 0 THEN <<>> ELSE <<c>>
  ELSE LET t == a[i] * d + c
       IN <<t % Limb>> \o MulLimb(a, d, i + 1, t \div Limb)

\* a times the digits of b from position i on, at their place.
RECURSIVE MulLimbs(_, _, _)
MulLimbs(a, b, i) ==
  IF i > Len(b) THEN <<>>
  ELSE AddLimbs([j \in 1..(i - 1) |-> 0] \o MulLimb(a, b[i], 1, 0),
                MulLimbs(a, b, i + 1), 1, 0)

\* The number of bits of a.
BitLength(a) ==
  IF a = <<>> THEN 0
  ELSE 15 * (Len(a) - 1)
         + (CHOOSE k \in 1..15 : 2^(k - 1) <= a[Len(a)] /\ a[Len(a)] < 2^k)

\* Bit k of a, bit 0 the lowest.
BitOf(a, k) == (LimbAt(a, k \div 15 + 1) \div 2^(k % 15)) % 2

\* a modulo 2^k is not 0.
LowBitsSet(a, k) ==
  \/ \E i \in 1..(k \div 15) : LimbAt(a, i) # 0
  \/ LimbAt(a, k \div 15 + 1) % 2^(k % 15) # 0

\* a * 2^k
ShiftLeft(a, k) ==
  LET q == k \div 15
      r == k % 15
  IN Trim([i \in 1..(Len(a) + q + 1) |->
             IF i <= q THEN 0
             ELSE (LimbAt(a, i - q) % 2^(15 - r)) * 2^r
                    + LimbAt(a, i - q - 1) \div 2^(15 - r)])

\* a divided by 2^k, the remainder dropped
ShiftRight(a, k) ==
  LET q == k \div 15
      r == k % 15
  IN IF q >= Len(a) THEN <<>>
     ELSE Trim([i \in 1..(Len(a) - q) |->
                  LimbAt(a, i + q) \div 2^r
                    + (LimbAt(a, i + q + 1) % 2^r) * 2^(15 - r)])

Zero == [neg |-> FALSE, m |-> <<>>, e |-> 0]

\* The double nearest to (neg ? -1 : 1) * m * 2^e.
RoundToDouble(neg, m, e) ==
  IF m = <<>> THEN Zero
  ELSE IF BitLength(m) <= 53 THEN [neg |-> neg, m |-> m, e |-> e]
  ELSE LET k == BitLength(m) - 53
           top == ShiftRight(m, k)
           half == BitOf(m, k - 1) = 1
           more == LowBitsSet(m, k - 1)
           up == half /\ (more \/ BitOf(top, 0) = 1)
       IN [neg |-> neg,
           m |-> IF up THEN AddLimbs(top, <<1>>, 1, 0) ELSE top,
           e |-> e + k]

DoubleOfInt(n) == RoundToDouble(n < 0, LimbsOf(Abs(n)), 0)

\* The quotient by b of the number whose digits are a[1..i] above the
\* remainder r, and the remainder left: long division from the highest digit.
RECURSIVE DivideLimbs(_, _, _, _)
DivideLimbs(a, b, i, r) ==
  IF i = 0 THEN <<<<>>, r>>
  ELSE LET t == r * Limb + a[i]
           rest == DivideLimbs(a, b, i - 1, t % b)
       IN <<rest[1] \o <<t \div b>>, rest[2]>>

\* a / b for integers a >= 0 and b > 0 below 4096.  a * 2^66 / b has at least
\* two bits beyond the 53 that are kept; one more bit, below them, records
\* that the division left a remainder.
DoubleDivide(a, b) ==
  IF a % b = 0 THEN DoubleOfInt(a \div b)
  ELSE LET num == ShiftLeft(LimbsOf(a), 66)
           st == DivideLimbs(num, b, Len(num), 0)
           odd == IF st[2] # 0 THEN <<1>> ELSE <<>>
       IN RoundToDouble(FALSE, AddLimbs(ShiftLeft(Trim(st[1]), 1), odd, 1, 0), -67)

DoubleNegate(p) == IF p.m = <<>> THEN p ELSE [p EXCEPT !.neg = ~p.neg]

\* p + q before it is rounded.
ExactSum(p, q) ==
  IF p.m = <<>> THEN q
  ELSE IF q.m = <<>> THEN p
  ELSE LET e == IF p.e < q.e THEN p.e ELSE q.e
           pm == ShiftLeft(p.m, p.e - e)
           qm == ShiftLeft(q.m, q.e - e)
       IN IF p.neg = q.neg THEN [neg |-> p.neg, m |-> AddLimbs(pm, qm, 1, 0), e |-> e]
          ELSE IF pm = qm THEN Zero
          ELSE IF LessLimbs(pm, qm)
               THEN [neg |-> q.neg, m |-> Trim(SubLimbs(qm, pm, 1, 0)), e |-> e]
               ELSE [neg |-> p.neg, m |-> Trim(SubLimbs(pm, qm, 1, 0)), e |-> e]

DoubleAdd(p, q) ==
  LET t == ExactSum(p, q) IN RoundToDouble(t.neg, t.m, t.e)

DoubleMultiply(p, q) ==
  RoundToDouble(p.neg # q.neg, Trim(MulLimbs(p.m, q.m, 1)), p.e + q.e)

DoubleLess(p, q) ==
  LET t == ExactSum(q, DoubleNegate(p)) IN t.m # <<>> /\ ~t.neg

\* The integer part of a double p with 0 <= p < 2^31.
Truncate(p) ==
  IF p.e >= 0 THEN NatOf(ShiftLeft(p.m, p.e)) ELSE NatOf(ShiftRight(p.m, -p.e))

\* this.canvas.width = img.width * scale: the product of two doubles is a
\* double, and the canvas attribute, an unsigned long, drops its fraction.
\* A product that is a whole number in exact arithmetic can be rounded to the
\* double just below it (1078 * (800 / 1078) is 799.9999999999999).
CanvasDim(n, sc) ==
  Truncate(DoubleMultiply(DoubleOfInt(n), DoubleDivide(sc.num, sc.den)))

\* drawImage followed by getImageData, for a canvas of positive size: the RGB of
\* each pixel, in raster order.  Drawn at its natural size the image is copied
\* pixel by pixel; drawn at another size it is resampled, which leaves a
\* uniform image uniform (every file that is scaled here is uniform).
GetImageData(file, cw, ch) ==
  [width |-> cw, height |-> ch,
   data |-> [i \in 1..(cw * ch) |->
               IF cw = file.width /\ ch = file.height /\ (i - 1) \in file.inked
               THEN file.ink ELSE file.background]]

\* data[idx] + data[idx + 1] + data[idx + 2], a sum of integers.
ChannelTotal(img, px, py) ==
  LET c == img.data[py * img.width + px + 1] IN c[1] + c[2] + c[3]

\* getGray: the sum of the three channels divided by 3.
GetGray(img, px, py) == DoubleDivide(ChannelTotal(img, px, py), 3)

\* k * this.getGray(data, x + dx, y + dy, width)
Term(k, img, px, py) == DoubleMultiply(DoubleOfInt(k), GetGray(img, px, py))

\* gx and gy of detectEdges: six products added from left to right.
Gx(img, px, py) ==
  DoubleAdd(DoubleAdd(DoubleAdd(DoubleAdd(DoubleAdd(
    Term(-1, img, px - 1, py - 1), Term(1, img, px + 1, py - 1)),
    Term(-2, img, px - 1, py)), Term(2, img, px + 1, py)),
    Term(-1, img, px - 1, py + 1)), Term(1, img, px + 1, py + 1))

Gy(img, px, py) ==
  DoubleAdd(DoubleAdd(DoubleAdd(DoubleAdd(DoubleAdd(
    Term(-1, img, px - 1, py - 1), Term(-2, img, px, py - 1)),
    Term(-1, img, px + 1, py - 1)), Term(1, img, px - 1, py + 1)),
    Term(2, img, px, py + 1)), Term(1, img, px + 1, py + 1))

\* The eight neighbours' grays are all whole numbers: every product and sum
\* of gx, gy and gx*gx + gy*gy is then a whole number below 2^53, which
\* double arithmetic computes without rounding.
WholeGrays(img, px, py) ==
  \A dx, dy \in {-1, 0, 1} :
    (dx # 0 \/ dy # 0) => ChannelTotal(img, px + dx, py + dy) % 3 = 0

WholeGray(img, px, py) == ChannelTotal(img, px, py) \div 3

WholeGx(img, px, py) ==
    (-1) * WholeGray(img, px - 1, py - 1) + WholeGray(img, px + 1, py - 1)
  + (-2) * WholeGray(img, px - 1, py) + 2 * WholeGray(img, px + 1, py)
  + (-1) * WholeGray(img, px - 1, py + 1) + WholeGray(img, px + 1, py + 1)

WholeGy(img, px, py) ==
    (-1) * WholeGray(img, px - 1, py - 1) + (-2) * WholeGray(img, px, py - 1)
  + (-1) * WholeGray(img, px + 1, py - 1) + WholeGray(img, px - 1, py + 1)
  + 2 * WholeGray(img, px, py + 1) + WholeGray(img, px + 1, py + 1)

\* magnitude > 50 with magnitude = Math.sqrt(gx * gx + gy * gy).  The sum of
\* the squares is a double s and Math.sqrt gives the double nearest to its
\* root: for s <= 2500 that is at most 50, and for the least double above
\* 2500 (2500 + 2^-41) the root exceeds 50 + 2^-48, the middle between 50
\* and the double after it, so magnitude > 50 exactly when s > 2500.
MagnitudeAboveThreshold(img, px, py) ==
  IF WholeGrays(img, px, py)
  THEN LET gx == WholeGx(img, px, py)
           gy == WholeGy(img, px, py)
       IN gx * gx + gy * gy > MagnitudeThreshold * MagnitudeThreshold
  ELSE LET gx == Gx(img, px, py)
           gy == Gy(img, px, py)
       IN DoubleLess(DoubleOfInt(MagnitudeThreshold * MagnitudeThreshold),
                     DoubleAdd(DoubleMultiply(gx, gx), DoubleMultiply(gy, gy)))

\* (variant: the comparison with the threshold is reversed)
EdgeValueInverted(img, px, py) ==
  IF MagnitudeAboveThreshold(img, px, py) THEN 0 ELSE 255

\* edges.data[idx] = magnitude > 50 ? 255 : 0
EdgeValue(img, px, py) ==
  IF MagnitudeAboveThreshold(img, px, py) THEN 255 ELSE 0

\* detectEdges: new ImageData is all zero, the loops write the pixels that are
\* not on the image's border.
DetectEdges(img) ==
  [width |-> img.width, height |-> img.height,
   data |-> [i \in 1..(img.width * img.height) |->
               LET px == (i - 1) % img.width
                   py == (i - 1) \div img.width
               IN IF px >= 1 /\ px < img.width - 1 /\ py >= 1 /\ py < img.height - 1
                  THEN EdgeValue(img, px, py) ELSE 0]]

(***************************************************************************)
(* detectEdges on its own, started on a pixel buffer.  A pixel is black,   *)
(* a red of mean luminance 25 or a blue of mean luminance 26: two such     *)
(* pixels to the right of the centre give it a gradient magnitude of       *)
(* exactly 50, or of 51 or 52.  The channels of Red1 and Red74 do not add  *)
(* up to a multiple of 3: their luminances 1/3 and 74/3 are rounded, and   *)
(* 1/3 + 2 * 74/3 + 1/3, which is 50, is not 50 in doubles.                *)
(***************************************************************************)
EdgeMaxW == 4

Red25 == <<75, 0, 0>>
Blue26 == <<0, 0, 78>>
Red1 == <<1, 0, 0>>
Red74 == <<74, 0, 0>>

Buffer(w, h, px) == [width |-> w, height |-> h, data |-> px]

\* Every 3 x 3 buffer of the three colours whose left column has no blue
\* pixel; every 3 x 3 buffer that is black but for a right column of Red1 and
\* Red74 pixels; every buffer of black and white pixels 3 rows high and up to
\* EdgeMaxW wide; and black buffers without an interior pixel.
EdgeBuffers ==
  { Buffer(3, 3, px) :
      px \in { q \in [1..9 -> {Black, Red25, Blue26}] :
                 \A r \in {1, 4, 7} : q[r] # Blue26 } }
    \cup { Buffer(3, 3, [i \in 1..9 |-> IF i % 3 = 0 THEN col[i \div 3] ELSE Black]) :
           col \in [1..3 -> {Red1, Red74}] }
    \cup UNION { { Buffer(w, 3, px) : px \in [1..(3 * w) -> {Black, White}] } :
                 w \in 4..EdgeMaxW }
    \cup { Buffer(d[1], d[2], [i \in 1..(d[1] * d[2]) |-> Black]) :
           d \in { <<1, 1>>, <<2, 5>>, <<5, 2>>, <<1, 4>> } }

InitEdges ==
  /\ imageData \in EdgeBuffers
  /\ pc = "detect"
  /\ edges = Mask(0, 0, {})
  /\ x = 0 /\ y = 0
  /\ visited = {}
  /\ contours = <<>>
  /\ stack = <<>>
  /\ contour = <<>>
  /\ dropped = <<>>
  /\ width = 0 /\ height = 0 /\ ci = 0
  /\ walls = <<>> /\ doors = <<>> /\ windows = <<>> /\ rooms = <<>>
  /\ AppIdle
  /\ objContent = <<>>

\* const edges = this.detectEdges(imageData)
DetectEdgesStep ==
  /\ pc = "detect"
  /\ edges' = DetectEdges(imageData)
  /\ pc' = "detected"
  /\ UNCHANGED <<imageData, objContent, x, y, visited, contours, stack, contour, dropped,
                 classVars, appVars>>

NextEdges == DetectEdgesStep

SpecEdges == InitEdges /\ [][NextEdges]_vars


(***************************************************************************)
(* The App: handleFileSelect, processImage and the Reset button.  An event *)
(* handler runs to completion: while img.onload's handler is in the        *)
(* pipeline (active # 0) no other handler starts, and a queued await       *)
(* continuation (microtask # 0) runs before the next event.                *)
(***************************************************************************)
Started == Cardinality({ i \in 1..MaxUploads : calls[i].pc # "none" })

Returned == Cardinality({ i \in 1..MaxUploads : calls[i].pc = "returned" })

Idle == pc = "idle" /\ active = 0 /\ microtask = 0

\* resolve(v) and reject(v): only the first settles the promise.
Settle(call, how, v) ==
  [call EXCEPT
     !.promise = IF call.promise = "pending" THEN how ELSE @,
     !.value = IF call.promise = "pending" THEN v ELSE @,
     !.resolves = IF how = "fulfilled" THEN @ + 1 ELSE @,
     !.rejects = IF how = "rejected" THEN @ + 1 ELSE @,
     !.pc = "settled"]

InitApp ==
  /\ AppIdle
  /\ imageData = NoImageData
  /\ objContent = <<>>
  /\ pc = "idle"
  /\ edges = Mask(0, 0, {})
  /\ x = 0 /\ y = 0
  /\ visited = {}
  /\ contours = <<>>
  /\ stack = <<>>
  /\ contour = <<>>
  /\ dropped = <<>>
  /\ width = 0 /\ height = 0 /\ ci = 0
  /\ walls = <<>> /\ doors = <<>> /\ windows = <<>> /\ rooms = <<>>

\* handleFileSelect up to its await.  FileUpload is rendered only while
\* processingResult is null; its file input is rendered only while
\* isProcessing is false, its drop zone always.
HandleFileSelect(file, via) ==
  /\ Idle
  /\ processingResult = Null
  /\ via = "input" => ~isProcessing
  /\ Started < MaxUploads
  /\ isProcessing' = TRUE
  /\ uploadedImage' = file
  /\ calls' = [calls EXCEPT ![Started + 1] =
                 [NoCall EXCEPT !.file = file, !.via = via, !.pc = "decoding"]]
  /\ UNCHANGED <<imageData, objContent, traceVars, contours, pc, classVars, processingResult, active,
                 microtask, scale, alerts>>

\* img.onerror: reject(new Error('Failed to load image')).
ImgOnerror(i) ==
  /\ Idle
  /\ calls[i].pc = "decoding"
  /\ ~calls[i].file.decodable
  /\ calls' = [calls EXCEPT ![i] = Settle(@, "rejected", Error("Failed to load image"))]
  /\ microtask' = i
  /\ UNCHANGED <<imageData, objContent, traceVars, contours, pc, classVars, processingResult,
                 isProcessing, uploadedImage, active, scale, alerts>>

\* (variant: one visited set is kept from one call of findContours to the next)
KeptVisitedSet(previous) == previous

\* const visited = new Set<string>(): findContours starts with a set of its own,
\* whatever an earlier call left behind.
NewVisitedSet(previous) == {}

\* img.onload: analyzeFloorPlan up to findContours' first loop step.
\* getImageData throws IndexSizeError for a canvas without pixels; the handler
\* catches it and rejects.
ImgOnload(i) ==
  /\ Idle
  /\ calls[i].pc = "decoding"
  /\ calls[i].file.decodable
  /\ LET file == calls[i].file
         sc == Scale(file.width, file.height)
         cw == CanvasDim(file.width, sc)
         ch == CanvasDim(file.height, sc)
         sized == [calls[i] EXCEPT !.canvas = [width |-> cw, height |-> ch]]
     IN /\ scale' = sc
        /\ IF cw = 0 \/ ch = 0
           THEN /\ calls' = [calls EXCEPT ![i] =
                               Settle([sized EXCEPT !.stage = "getImageData"],
                                      "rejected", Error("IndexSizeError"))]
                /\ microtask' = i
                /\ UNCHANGED <<edges, x, y, visited, contours, pc, active>>
           ELSE /\ calls' = [calls EXCEPT ![i] =
                               [sized EXCEPT !.pc = "onload", !.stage = "findContours"]]
                /\ edges' = DetectEdges(GetImageData(file, cw, ch))
                /\ x' = 0 /\ y' = 0
                /\ visited' = NewVisitedSet(visited)
                /\ contours' = <<>>
                /\ pc' = "scan"
                /\ active' = i
                /\ UNCHANGED microtask
  /\ UNCHANGED <<imageData, objContent, stack, contour, dropped, classVars, processingResult,
                 isProcessing, uploadedImage, alerts>>

\* findContours has returned: classifyContours(contours, this.canvas.width,
\* this.canvas.height) is entered.
ClassifyEnter ==
  /\ pc = "done" /\ active # 0
  /\ width' = calls[active].canvas.width
  /\ height' = calls[active].canvas.height
  /\ ci' = 1
  /\ walls' = <<>> /\ doors' = <<>> /\ windows' = <<>> /\ rooms' = <<>>
  /\ pc' = "classify"
  /\ calls' = [calls EXCEPT ![active].stage = "classifyContours"]
  /\ UNCHANGED <<imageData, objContent, traceVars, contours, processingResult, isProcessing,
                 uploadedImage, active, microtask, scale, alerts>>

\* return { ...classified, scale, imageWidth, imageHeight }
Result(cls, sc, canvas) ==
  [kind |-> "result", walls |-> cls.walls, doors |-> cls.doors,
   windows |-> cls.windows, rooms |-> cls.rooms, scale |-> sc,
   imageWidth |-> canvas.width, imageHeight |-> canvas.height]

\* classifyContours has returned: analyzeFloorPlan returns, resolve(result).
AnalyzeReturn ==
  /\ pc = "classified" /\ active # 0
  /\ calls' = [calls EXCEPT ![active] =
                 Settle([@ EXCEPT !.stage = "returned"], "fulfilled",
                        Result([walls |-> walls, doors |-> doors,
                                windows |-> windows, rooms |-> rooms],
                               scale, @.canvas))]
  /\ microtask' = active
  /\ active' = 0
  /\ pc' = "idle"
  /\ UNCHANGED <<imageData, objContent, traceVars, contours, classVars, processingResult,
                 isProcessing, uploadedImage, scale, alerts>>

\* (variant: the catch block also clears the result on display)
AfterAwaitClearing(call, shown) ==
  IF call.promise = "fulfilled" THEN call.value ELSE Null

\* processingResult after `await processor.processImage(file)`:
\* setProcessingResult(result) if the promise is fulfilled, the catch block
\* otherwise.
AfterAwait(call, shown) ==
  IF call.promise = "fulfilled" THEN call.value ELSE shown

\* handleFileSelect from its await on: try or catch, then finally.
AwaitResume(i) ==
  /\ microtask = i
  /\ calls[i].pc = "settled"
  /\ processingResult' = AfterAwait(calls[i], processingResult)
  /\ alerts' = IF calls[i].promise = "rejected" THEN alerts + 1 ELSE alerts
  /\ isProcessing' = FALSE
  /\ calls' = [calls EXCEPT ![i].pc = "returned", ![i].order = Returned + 1]
  /\ microtask' = 0
  /\ UNCHANGED <<imageData, objContent, traceVars, contours, pc, classVars, uploadedImage, active, scale>>

\* The Reset button, rendered while a result is shown.
Reset ==
  /\ Idle
  /\ processingResult # Null
  /\ processingResult' = Null
  /\ uploadedImage' = Null
  /\ UNCHANGED <<imageData, objContent, traceVars, contours, pc, classVars, isProcessing, calls,
                 active, microtask, scale, alerts>>

Next ==
  \/ \E file \in Files, via \in {"input", "drop"} : HandleFileSelect(file, via)
  \/ \E i \in 1..MaxUploads : ImgOnerror(i)
  \/ \E i \in 1..MaxUploads : ImgOnload(i)
  \/ ScanDone
  \/ ScanNextRow
  \/ ScanSkip
  \/ ScanStartTrace
  \/ TraceStep
  \/ TraceReturn
  \/ ClassifyEnter
  \/ ClassifyStep
  \/ ClassifyReturn
  \/ AnalyzeReturn
  \/ \E i \in 1..MaxUploads : AwaitResume(i)
  \/ Reset

Spec == InitApp /\ [][Next]_vars

(***************************************************************************)
(* ExportOptions.exportToOBJ.  objContent is kept as the sequence of its   *)
(* lines: the comment line, vertex lines `v x y z` and face lines          *)
(* `f a b c d`.  A coordinate p.x * 0.01 is kept as the integer number of  *)
(* hundredths; the height of a box is 0 or 3.                              *)
(***************************************************************************)
MaxWalls == 3

CommentLine == [kind |-> "#"]
VertexLine(v) == [kind |-> "v", x100 |-> v[1], y |-> v[2], z100 |-> v[3]]
FaceLine(idx) == [kind |-> "f", idx |-> idx]

\* wall.points.reduce(...): the bounding box of the points, y negated.
ExportBounds(points) ==
  LET xs == { points[i].x : i \in 1..Len(points) }
      ys == { -points[i].y : i \in 1..Len(points) }
  IN [minX |-> SetMin(xs), maxX |-> SetMax(xs),
      minY |-> SetMin(ys), maxY |-> SetMax(ys)]

\* const vertices = [...]; vertices.forEach(v => objContent += `v ...`)
WallVertices(b) ==
  << VertexLine(<<b.minX, 0, b.minY>>), VertexLine(<<b.maxX, 0, b.minY>>),
     VertexLine(<<b.maxX, 0, b.maxY>>), VertexLine(<<b.minX, 0, b.maxY>>),
     VertexLine(<<b.minX, 3, b.minY>>), VertexLine(<<b.maxX, 3, b.minY>>),
     VertexLine(<<b.maxX, 3, b.maxY>>), VertexLine(<<b.minX, 3, b.maxY>>) >>

\* (variant: the face lines count the vertices from 0)
WallFacesFromZero(baseIndex) ==
  << FaceLine(<<baseIndex - 1, baseIndex, baseIndex + 1, baseIndex + 2>>),
     FaceLine(<<baseIndex + 3, baseIndex + 6, baseIndex + 5, baseIndex + 4>>),
     FaceLine(<<baseIndex - 1, baseIndex + 3, baseIndex + 4, baseIndex>>),
     FaceLine(<<baseIndex + 1, baseIndex + 5, baseIndex + 6, baseIndex + 2>>),
     FaceLine(<<baseIndex + 2, baseIndex + 6, baseIndex + 3, baseIndex - 1>>),
     FaceLine(<<baseIndex, baseIndex + 4, baseIndex + 5, baseIndex + 1>>) >>

\* The six face lines: bottom, top, front, back, left, right.
WallFaces(baseIndex) ==
  << FaceLine(<<baseIndex, baseIndex + 1, baseIndex + 2, baseIndex + 3>>),
     FaceLine(<<baseIndex + 4, baseIndex + 7, baseIndex + 6, baseIndex + 5>>),
     FaceLine(<<baseIndex, baseIndex + 4, baseIndex + 5, baseIndex + 1>>),
     FaceLine(<<baseIndex + 2, baseIndex + 6, baseIndex + 7, baseIndex + 3>>),
     FaceLine(<<baseIndex + 3, baseIndex + 7, baseIndex + 4, baseIndex>>),
     FaceLine(<<baseIndex + 1, baseIndex + 5, baseIndex + 6, baseIndex + 2>>) >>

\* The callback of data.walls.forEach, on acc = [objContent, vertexIndex].
ExportWall(wall, acc) ==
  IF Len(wall.points) >= 3
  THEN [objContent |-> acc.objContent
                         \o WallVertices(ExportBounds(wall.points))
                         \o WallFaces(acc.vertexIndex),
        vertexIndex |-> acc.vertexIndex + 8]
  ELSE acc

RECURSIVE ExportWalls(_, _, _)
ExportWalls(ws, k, acc) ==
  IF k > Len(ws) THEN acc
  ELSE ExportWalls(ws, k + 1, ExportWall(ws[k], acc))

\* exportToOBJ up to the creation of the Blob.
ExportToOBJ(data) ==
  ExportWalls(data.walls, 1,
              [objContent |-> <<CommentLine>>, vertexIndex |-> 1]).objContent

\* The results exportToOBJ is started on: what classifyContours returns, in a
\* 300 x 300 image, for up to MaxWalls disjoint outlines 101 x 15 (walls), with
\* or without a 50 x 40 outline (a door) among them.
WallRings == { Ring(InteriorOffset, InteriorOffset + 40 * k, 101, 15) : k \in 0..3 }

DoorRing == Ring(230, InteriorOffset, 50, 40)

RECURSIVE ClassifyAll(_, _, _, _, _)
ClassifyAll(cs, k, w, h, acc) ==
  IF k > Len(cs) THEN acc
  ELSE ClassifyAll(cs, k + 1, w, h, ClassifyOne(cs[k], w, h, acc))

ExportContourLists ==
  LET walled == UNION { { q \in [1..n -> WallRings] :
                            \A i, j \in 1..n : i # j => q[i] # q[j] } :
                        n \in 0..MaxWalls }
  IN walled \cup { <<DoorRing>> \o q : q \in walled }

ExportResults ==
  { Result(ClassifyAll(cs, 1, 300, 300,
                       [walls |-> <<>>, doors |-> <<>>,
                        windows |-> <<>>, rooms |-> <<>>]),
           Rat(1, 1), [width |-> 300, height |-> 300]) :
    cs \in ExportContourLists }

InitExport ==
  /\ processingResult \in ExportResults
  /\ objContent = <<>>
  /\ pc = "export"
  /\ isProcessing = FALSE
  /\ uploadedImage = Null
  /\ calls = [i \in 1..MaxUploads |-> NoCall]
  /\ active = 0
  /\ microtask = 0
  /\ scale = [num |-> 1, den |-> 1]
  /\ alerts = 0
  /\ imageData = NoImageData
  /\ edges = Mask(0, 0, {})
  /\ x = 0 /\ y = 0
  /\ visited = {}
  /\ contours = <<>>
  /\ stack = <<>>
  /\ contour = <<>>
  /\ dropped = <<>>
  /\ width = 0 /\ height = 0 /\ ci = 0
  /\ walls = <<>> /\ doors = <<>> /\ windows = <<>> /\ rooms = <<>>

\* The click on "Export OBJ".
ExportClick ==
  /\ pc = "export"
  /\ objContent' = ExportToOBJ(processingResult)
  /\ pc' = "exported"
  /\ UNCHANGED <<traceVars, contours, classVars, appVars, imageData>>

NextExport == ExportClick

SpecExport == InitExport /\ [][NextExport]_vars



(***************************************************************************)
(* Vocabulary of the tracer's properties: the 8-connected components of    *)
(* the mask, computed from the mask alone.                                 *)
(***************************************************************************)
EdgePixels(img) ==
  { p \in [x : 0..(img.width - 1), y : 0..(img.height - 1)] :
      IsEdge(img, p.x, p.y) }

Around(p) == { Point(p.x + dx, p.y + dy) : dx \in -1..1, dy \in -1..1 }

RECURSIVE Flood(_, _, _)
Flood(E, S, F) ==
  IF F = {} THEN S
  ELSE LET N == ((UNION { Around(p) : p \in F }) \cap E) \ S
       IN Flood(E, S \cup N, N)

\* The 8-connected component of edge pixel p.
Component(img, p) == Flood(EdgePixels(img), {p}, {p})

RECURSIVE ComponentsOf(_)
ComponentsOf(E) ==
  IF E = {} THEN {}
  ELSE LET p == CHOOSE q \in E : TRUE
           C == Flood(E, {p}, {p})
       IN {C} \cup ComponentsOf(E \ C)

Components(img) == ComponentsOf(EdgePixels(img))

\* Every point collected so far: by the regions kept, by the regions dropped
\* and by the one being traced.
Collected == (UNION { PointSet(contours[i]) : i \in 1..Len(contours) })
               \cup (UNION { PointSet(dropped[i]) : i \in 1..Len(dropped) })
               \cup PointSet(contour)

\* The regions that traceContour ended at the cap (all of them are kept).
CappedRegions == { i \in 1..Len(contours) : Len(contours[i]) = MaxContourPoints }

RECURSIVE SumLen(_, _)
SumLen(seqs, k) == IF k = 0 THEN 0 ELSE Len(seqs[k]) + SumLen(seqs, k - 1)

\* traceContour's loop has just stopped because the contour holds 1000 points.
CapStop == pc = "trace" /\ Len(contour) = MaxContourPoints

(***************************************************************************)
(* C1 (as stated).  When traceContour stops a region at 1000 points, every *)
(* edge pixel of that 8-connected component that was not collected is      *)
(* marked visited; it starts no new region in the raster scan and appears  *)
(* in no other region: one component never yields more than one Contour.   *)
(***************************************************************************)
C1_CapRemainderDropped ==
  /\ CapStop =>
       \A p \in Component(edges, contour[1]) \ PointSet(contour) :
         Key(p.x, p.y) \in visited
  /\ (pc = "done") =>
       \A i \in CappedRegions :
         LET C == Component(edges, contours[i][1])
         IN /\ \A j \in (1..Len(contours)) \ {i} : PointSet(contours[j]) \cap C = {}
            /\ \A j \in 1..Len(dropped) : PointSet(dropped[j]) \cap C = {}

(***************************************************************************)
(* C1 (amended).  When traceContour stops a region at 1000 points, the     *)
(* edge pixels of that component that were not collected have not been     *)
(* marked visited (a pixel is marked only when it is popped, and an edge   *)
(* pixel is collected at that moment): an edge pixel of the component is   *)
(* visited exactly when it has been collected.  The raster scan starts     *)
(* further regions from the remainder, so that when findContours returns   *)
(* every pixel of the component has been collected by some traced region.  *)
(***************************************************************************)
C1_CapRemainderRetraced ==
  /\ CapStop =>
       LET col == Collected
       IN \A p \in Component(edges, contour[1]) :
            (Key(p.x, p.y) \in visited) <=> (p \in col)
  /\ (pc = "done") =>
       LET col == Collected
       IN \A i \in CappedRegions : Component(edges, contours[i][1]) \subseteq col

\* A capped region, and a later region of more than 10 points (a second Contour)
\* started inside the same component.
C1_Witness ==
  \E i \in CappedRegions : \E j \in (i + 1)..Len(contours) :
    contours[j][1] \in Component(edges, contours[i][1])

(***************************************************************************)
(* C2.  When findContours returns, each 8-connected component of edge      *)
(* pixels with 11..1000 pixels has exactly one Contour whose point set is  *)
(* the component (and no other Contour touches it), and each component of  *)
(* 10 or fewer pixels has no Contour.                                      *)
(***************************************************************************)
C2_ComponentContour ==
  (pc = "done") =>
    \A C \in Components(edges) :
      LET n   == Cardinality(C)
          hit == { k \in 1..Len(contours) : PointSet(contours[k]) \cap C # {} }
      IN /\ (n > MinContourSize /\ n <= MaxContourPoints) =>
              /\ Cardinality(hit) = 1
              /\ \A k \in hit : PointSet(contours[k]) = C
         /\ (n <= MinContourSize) => hit = {}

\* The mask of the two blobs of 50 and 5 pixels, traced to the end: one Contour
\* of 50 points, the region of 5 dropped.
C2_Witness ==
  /\ pc = "done"
  /\ edges = TwoBlobMask
  /\ Len(dropped) = 1 /\ Len(dropped[1]) = 5
  /\ Len(contours) = 1
  /\ Len(contours[1]) = 50

(***************************************************************************)
(* C3.  At every step of findContours no point occurs twice among the      *)
(* Contours emitted, the regions dropped and the region being traced       *)
(* (neither inside one nor in two of them), and every collected point has  *)
(* its key in the visited set.                                             *)
(***************************************************************************)
C3_Disjoint ==
  LET col == Collected
  IN /\ Cardinality(col) = SumLen(contours, Len(contours))
                             + SumLen(dropped, Len(dropped)) + Len(contour)
     /\ Cardinality(UNION { PointSet(contours[k]) : k \in 1..Len(contours) })
          = SumLen(contours, Len(contours))
     /\ { Key(p.x, p.y) : p \in col } \subseteq visited

\* A Contour has been emitted and a further region is being traced.
C3_Witness ==
  /\ Len(contours) >= 1
  /\ pc = "trace"
  /\ Len(contour) >= 2
  /\ Len(stack) > 0

(***************************************************************************)
(* C4.  Every emitted Contour has more than 10 and at most 1000 points; a  *)
(* traced region of 10 or fewer points is never among the Contours, a      *)
(* remainder of a capped component included.                               *)
(***************************************************************************)
C4_SizeBounds ==
  /\ \A k \in 1..Len(contours) :
       Len(contours[k]) > MinContourSize /\ Len(contours[k]) <= MaxContourPoints
  /\ \A j \in 1..Len(dropped) :
       /\ Len(dropped[j]) <= MinContourSize
       /\ \A k \in 1..Len(contours) : contours[k] # dropped[j]

\* A capped region whose remainder was traced as a region of at most 10 points
\* and dropped.
C4_Witness ==
  \E i \in CappedRegions : \E j \in 1..Len(dropped) :
    dropped[j][1] \in Component(edges, contours[i][1])

(***************************************************************************)
(* Vocabulary of the classifier's properties, from the contour alone.      *)
(***************************************************************************)
\* The point after index i, indices cyclic.
CyclicNext(points, i) == IF i = Len(points) THEN points[1] ELSE points[i + 1]

\* The sum over i in lo..hi of x_i * y_{i+1} - x_{i+1} * y_i.
RECURSIVE ShoelaceSum(_, _, _)
ShoelaceSum(points, lo, hi) ==
  IF lo > hi THEN 0
  ELSE IF lo = hi
       THEN points[lo].x * CyclicNext(points, lo).y
              - CyclicNext(points, lo).x * points[lo].y
  ELSE LET mid == (lo + hi) \div 2
       IN ShoelaceSum(points, lo, mid) + ShoelaceSum(points, mid + 1, hi)

\* Twice the absolute shoelace area.
ShoelaceTwice(points) == Abs(ShoelaceSum(points, 1, Len(points)))

\* The decision table: the category of a contour in a W x H image, or "dropped".
\* A2 is twice the area; aspect = bw / (bh + 1e-9) is compared as in AspectGT
\* and AspectLT.
Table(points, W, H) ==
  LET A2   == ShoelaceTwice(points)
      xs   == { p.x : p \in PointSet(points) }
      ys   == { p.y : p \in PointSet(points) }
      minX == SetMin(xs)
      maxX == SetMax(xs)
      minY == SetMin(ys)
      maxY == SetMax(ys)
      bw   == maxX - minX
      bh   == maxY - minY
      gt(n, d) == d * bw > n * bh
      lt(n, d) == d * bw <= n * bh
  IN CASE A2 > 10000 ->
            IF \/ minX <= 5 \/ minY <= 5 \/ maxX >= W - 5 \/ maxY >= H - 5
               \/ gt(3, 1) \/ lt(33, 100)
            THEN "wall" ELSE "room"
       [] A2 > 2000 /\ A2 <= 10000 ->
            IF gt(2, 5) /\ lt(5, 2) THEN "door" ELSE "wall"
       [] A2 > 400 /\ A2 <= 2000 ->
            IF gt(2, 1) \/ lt(1, 2) THEN "window" ELSE "dropped"
       [] A2 <= 400 -> "dropped"

Holds(list, points) == \E j \in 1..Len(list) : list[j].points = points

\* The result arrays that hold a contour, by name of their category.
Where(points) ==
  { t \in {"wall", "door", "window", "room"} :
      \/ t = "wall" /\ Holds(walls, points)
      \/ t = "door" /\ Holds(doors, points)
      \/ t = "window" /\ Holds(windows, points)
      \/ t = "room" /\ Holds(rooms, points) }

Occurrences(list, points) ==
  Cardinality({ j \in 1..Len(list) : list[j].points = points })

Classified == walls \o doors \o windows \o rooms

(***************************************************************************)
(* C5.  Every contour that classifyContours has processed is in exactly    *)
(* the result array the decision table names for its area, bounding box    *)
(* and the image size (in none if the table drops it), whatever was        *)
(* classified before it; a contour not yet processed is in none.           *)
(***************************************************************************)
C5_DecisionTable ==
  (pc \in {"classify", "classified"}) =>
    \A k \in 1..Len(contours) :
      Where(contours[k]) =
        IF k < ci THEN {Table(contours[k], width, height)} \ {"dropped"} ELSE {}

\* A door and then a room have been classified.
C5_Witness ==
  /\ pc = "classified"
  /\ Len(contours) = 2
  /\ Len(doors) = 1 /\ doors[1].points = contours[1]
  /\ Len(rooms) = 1 /\ rooms[1].points = contours[2]

(***************************************************************************)
(* C6.  Each contour occurs at most once in walls, doors, windows and      *)
(* rooms taken together, every Contour in a result array is one of the     *)
(* traced contours, and its type tag is the category of the array that     *)
(* holds it.                                                               *)
(***************************************************************************)
C6_Partition ==
  /\ \A k \in 1..Len(contours) :
       Occurrences(walls, contours[k]) + Occurrences(doors, contours[k])
         + Occurrences(windows, contours[k]) + Occurrences(rooms, contours[k]) <= 1
  /\ \A j \in 1..Len(Classified) :
       \E k \in 1..Len(contours) : Classified[j].points = contours[k]
  /\ \A j \in 1..Len(walls) : walls[j].type = "wall"
  /\ \A j \in 1..Len(doors) : doors[j].type = "door"
  /\ \A j \in 1..Len(windows) : windows[j].type = "window"
  /\ \A j \in 1..Len(rooms) : rooms[j].type = "room"

\* Two contours have been classified, both as walls (one by its aspect in the
\* large branch, one in the medium branch).
C6_Witness ==
  /\ pc = "classified"
  /\ Len(walls) = 2
  /\ RatGT(walls[1].area, Rat(5000, 1))
  /\ RatLE(walls[2].area, Rat(5000, 1))

(***************************************************************************)
(* C7.  The area of every Contour in the result arrays is half the         *)
(* absolute shoelace sum of its points in their stored order, and is not   *)
(* negative.                                                               *)
(***************************************************************************)
C7_Area ==
  \A j \in 1..Len(Classified) :
    LET e == Classified[j]
    IN /\ e.area.den > 0 /\ e.area.num >= 0
       /\ RatEq(e.area, Rat(ShoelaceTwice(e.points), 2))

\* A room of area 5969.5 (the 100 x 60 outline) is in the result.
C7_Witness ==
  /\ pc = "classified"
  /\ \E j \in 1..Len(rooms) :
       /\ RatEq(rooms[j].area, Rat(11939, 2))
       /\ ShoelaceSum(rooms[j].points, 1, Len(rooms[j].points)) < 0

(***************************************************************************)
(* Vocabulary of the App's properties.                                     *)
(***************************************************************************)
Calls == { i \in 1..MaxUploads : calls[i].pc # "none" }

Settled(i) == calls[i].pc \in {"settled", "returned"}

\* The stages of analyzeFloorPlan that follow getImageData.
LaterStages == {"findContours", "classifyContours", "returned"}

(***************************************************************************)
(* C8.  processImage never rejects for a decodable image, whatever its     *)
(* width and height: a call whose file is decodable never has a rejected   *)
(* promise.                                                                *)
(***************************************************************************)
C8_DecodableNeverRejected ==
  \A i \in Calls : calls[i].file.decodable => calls[i].promise # "rejected"

(***************************************************************************)
(* C9.  When the decode fails or a stage throws, the promise is rejected,  *)
(* by the one reject call made for it and with an error for its value (no  *)
(* ProcessingResult), no stage after the failing one has run for the call, *)
(* and the continuation of handleFileSelect that receives the rejection    *)
(* leaves processingResult as it was.                                      *)
(***************************************************************************)
C9_NoPartialResult ==
  /\ [](\A i \in Calls :
          /\ (Settled(i) /\ (~calls[i].file.decodable
                              \/ calls[i].stage = "getImageData"))
               => calls[i].promise = "rejected"
          /\ calls[i].promise = "rejected"
               => /\ calls[i].rejects = 1
                  /\ calls[i].resolves = 0
                  /\ calls[i].value.kind = "error"
                  /\ calls[i].stage \notin LaterStages
                  /\ active # i)
  /\ [][\A i \in Calls :
          (calls[i].promise = "rejected" /\ calls[i].pc = "settled"
             /\ calls'[i].pc = "returned")
            => processingResult' = processingResult]_vars

\* The second call is rejected (its decode failed, or getImageData threw) and
\* has returned after the first call, whose result is still on display.
C9_Witness ==
  /\ calls[1].promise = "fulfilled" /\ calls[1].order = 1
  /\ calls[2].promise = "rejected" /\ calls[2].order = 2
  /\ calls[2].value.kind = "error"
  /\ processingResult = calls[1].value
  /\ alerts = 1

(***************************************************************************)
(* C10.  The scale of every ProcessingResult returned is the least of      *)
(* 800/origW, 800/origH and 1, is positive and at most 1, and imageWidth   *)
(* and imageHeight are at most 800.                                        *)
(***************************************************************************)
C10_ScaleBounds ==
  \A i \in Calls :
    calls[i].promise = "fulfilled" =>
      LET v == calls[i].value
          origW == calls[i].file.width
          origH == calls[i].file.height
      IN /\ origW > 0 /\ origH > 0
         /\ RatLE(v.scale, Rat(800, origW))
         /\ RatLE(v.scale, Rat(800, origH))
         /\ RatLE(v.scale, Rat(1, 1))
         /\ \/ RatEq(v.scale, Rat(800, origW))
            \/ RatEq(v.scale, Rat(800, origH))
            \/ RatEq(v.scale, Rat(1, 1))
         /\ v.scale.num > 0 /\ v.scale.den > 0
         /\ v.imageWidth <= 800
         /\ v.imageHeight <= 800

\* Results have been returned for an image that is scaled down (1078 x 2, by
\* 800/1078 to 799 x 1) and for one that is kept at its size.
C10_Witness ==
  \E i, j \in Calls :
    /\ calls[i].promise = "fulfilled"
    /\ calls[i].file.width = 1078
    /\ RatEq(calls[i].value.scale, Rat(800, 1078))
    /\ calls[i].value.imageWidth = 799 /\ calls[i].value.imageHeight = 1
    /\ calls[j].promise = "fulfilled"
    /\ calls[j].file.width = 4
    /\ RatEq(calls[j].value.scale, Rat(1, 1))
    /\ calls[j].value.imageHeight = 8

(***************************************************************************)
(* C11.  imageWidth and imageHeight of every ProcessingResult returned are *)
(* origW * scale and origH * scale rounded to the nearest integer (a half  *)
(* rounds up).                                                             *)
(***************************************************************************)
C11_DimensionsRounded ==
  \A i \in Calls :
    calls[i].promise = "fulfilled" =>
      LET v == calls[i].value
          origW == calls[i].file.width
          origH == calls[i].file.height
      IN /\ v.imageWidth = (2 * origW * v.scale.num + v.scale.den) \div (2 * v.scale.den)
         /\ v.imageHeight = (2 * origH * v.scale.num + v.scale.den) \div (2 * v.scale.den)

(***************************************************************************)
(* Vocabulary of the edge detector's properties: the two Sobel kernels as  *)
(* matrices (rows top to bottom), the sum of a pixel's three channels      *)
(* (three times its unweighted-mean luminance), and the convolution.       *)
(***************************************************************************)
KernelX == << <<-1, 0, 1>>, <<-2, 0, 2>>, <<-1, 0, 1>> >>
KernelY == << <<-1, -2, -1>>, <<0, 0, 0>>, <<1, 2, 1>> >>

ChannelSum(img, px, py) ==
  LET c == img.data[py * img.width + px + 1] IN c[1] + c[2] + c[3]

RECURSIVE Convolve(_, _, _, _, _)
Convolve(K, img, px, py, k) ==
  IF k > 9 THEN 0
  ELSE LET row == (k - 1) \div 3
           col == (k - 1) % 3
       IN K[row + 1][col + 1] * ChannelSum(img, px + col - 1, py + row - 1)
            + Convolve(K, img, px, py, k + 1)

\* 9 * (gx^2 + gy^2) at an interior pixel.
Magnitude2Times9(img, px, py) ==
  LET cx == Convolve(KernelX, img, px, py, 1)
      cy == Convolve(KernelY, img, px, py, 1)
  IN cx * cx + cy * cy

Interior(img, px, py) ==
  px >= 1 /\ px <= img.width - 2 /\ py >= 1 /\ py <= img.height - 2

(***************************************************************************)
(* C12.  The mask detectEdges returns has the width and height of its      *)
(* argument, and a pixel of it is edge iff the pixel is interior and its   *)
(* gradient magnitude is strictly greater than 50 (9 * magnitude^2 >       *)
(* 22500); border pixels and pixels of magnitude exactly 50 are            *)
(* background.                                                             *)
(***************************************************************************)
C12_EdgeMask ==
  pc = "detected" =>
    /\ edges.width = imageData.width
    /\ edges.height = imageData.height
    /\ Len(edges.data) = imageData.width * imageData.height
    /\ \A px \in 0..(imageData.width - 1), py \in 0..(imageData.height - 1) :
         /\ DataAt(edges, px, py) \in {0, 255}
         /\ IsEdge(edges, px, py)
              <=> /\ Interior(imageData, px, py)
                  /\ Magnitude2Times9(imageData, px, py) > 22500

(***************************************************************************)
(* C13.  For a file whose pixels all have one colour: the edge mask        *)
(* detectEdges hands to findContours is all background, findContours       *)
(* collects no contour while the file's pipeline runs, and the             *)
(* ProcessingResult returned for it has empty walls, doors, windows and    *)
(* rooms.                                                                  *)
(***************************************************************************)
Uniform(file) ==
  file.decodable /\ (file.inked = {} \/ file.ink = file.background)

C13_UniformNothing ==
  \A i \in Calls :
    Uniform(calls[i].file) =>
      /\ active = i =>
           /\ contours = <<>>
           /\ contour = <<>>
           /\ (pc = "scan" /\ x = 0 /\ y = 0) =>
                /\ edges.width = calls[i].canvas.width
                /\ edges.height = calls[i].canvas.height
                /\ \A k \in 1..Len(edges.data) : edges.data[k] <= EdgeThreshold
      /\ calls[i].promise = "fulfilled" =>
           /\ calls[i].value.walls = <<>>
           /\ calls[i].value.doors = <<>>
           /\ calls[i].value.windows = <<>>
           /\ calls[i].value.rooms = <<>>

\* Results have been returned for a uniform image that has an interior pixel
\* and for a uniform image that was scaled down: all their lists are empty.
C13_Witness ==
  \E i, j \in Calls :
    /\ Uniform(calls[i].file) /\ calls[i].file.width = 3
    /\ calls[i].promise = "fulfilled"
    /\ calls[i].value.imageWidth = 3 /\ calls[i].value.imageHeight = 3
    /\ calls[i].value.walls = <<>> /\ calls[i].value.rooms = <<>>
    /\ Uniform(calls[j].file) /\ calls[j].file.height = 3
    /\ calls[j].file.width > MaxDim
    /\ calls[j].promise = "fulfilled"
    /\ calls[j].value.doors = <<>> /\ calls[j].value.windows = <<>>

(***************************************************************************)
(* C14.  Calls of processImage in flight together, their images loading in *)
(* any order, do not touch each other's canvas, buffer or visited set:     *)
(* findContours starts on a mask of the running call's own canvas with an  *)
(* empty visited set and no contours, classifyContours gets that canvas'   *)
(* size, and every call is fulfilled with the result its file gives when   *)
(* it is processed alone (so two calls on the same file get equal          *)
(* results).                                                               *)
(***************************************************************************)
\* What a file gives when processed alone: the working dimensions and the
\* number of windows (a file of Files never gives a wall, door or room).
AloneWidth(file) ==
  IF file.width = 1078 THEN 799 ELSE IF file.width > 800 THEN 800 ELSE file.width
AloneHeight(file) ==
  IF file.width = 1078 THEN 1
  ELSE IF file.width > 800 THEN file.height \div 2 ELSE file.height
AloneWindows(file) == IF file.width = 24 THEN 1 ELSE 0

C14_Independent ==
  /\ active # 0 =>
       /\ calls[active].pc = "onload"
       /\ edges.width = calls[active].canvas.width
       /\ edges.height = calls[active].canvas.height
       /\ calls[active].canvas.width = AloneWidth(calls[active].file)
       /\ calls[active].canvas.height = AloneHeight(calls[active].file)
       /\ (pc = "scan" /\ x = 0 /\ y = 0) => (visited = {} /\ contours = <<>>)
       /\ pc \in {"classify", "classified"} =>
            (width = edges.width /\ height = edges.height)
  /\ \A i \in Calls :
       calls[i].promise = "fulfilled" =>
         LET v == calls[i].value
         IN /\ v.imageWidth = AloneWidth(calls[i].file)
            /\ v.imageHeight = AloneHeight(calls[i].file)
            /\ Len(v.windows) = AloneWindows(calls[i].file)
            /\ v.walls = <<>> /\ v.doors = <<>> /\ v.rooms = <<>>
            /\ \A k \in 1..Len(v.windows) :
                 /\ Len(v.windows[k].points) = 62
                 /\ RatEq(v.windows[k].area, Rat(409, 2))
            /\ \A j \in Calls :
                 (calls[j].promise = "fulfilled" /\ calls[j].file = calls[i].file)
                   => calls[j].value = v

\* Two calls on the block image were in flight together, the image of the
\* second loaded first, and both are fulfilled with the one window.
C14_Witness ==
  /\ calls[1].file = BlockImage /\ calls[2].file = BlockImage
  /\ calls[2].order = 1 /\ calls[1].order = 2
  /\ calls[1].promise = "fulfilled" /\ calls[2].promise = "fulfilled"
  /\ Len(calls[1].value.windows) = 1
  /\ calls[1].value = calls[2].value

(***************************************************************************)
(* C15.  The text exportToOBJ builds has, for every wall of the result, 8  *)
(* vertex lines followed by 6 face lines of 4 indices each; the faces of   *)
(* the k-th wall (k from 0) use only the indices 8k+1 .. 8k+8, so indices  *)
(* start at 1 and grow from wall to wall, and every index of a face line   *)
(* is the number of a vertex line emitted before it.                       *)
(***************************************************************************)
VerticesBefore(n) ==
  Cardinality({ m \in 1..(n - 1) : objContent[m].kind = "v" })

FacesUpTo(n) ==
  Cardinality({ m \in 1..n : objContent[m].kind = "f" })

C15_ObjIndexing ==
  pc = "exported" =>
    LET nw == Len(processingResult.walls)
        n == Len(objContent)
    IN /\ n = 1 + 14 * nw
       /\ VerticesBefore(n + 1) = 8 * nw
       /\ FacesUpTo(n) = 6 * nw
       /\ \A k \in 0..(nw - 1) :
            /\ \A m \in 1..8 : objContent[1 + 14 * k + m].kind = "v"
            /\ \A m \in 9..14 :
                 LET line == objContent[1 + 14 * k + m]
                 IN /\ line.kind = "f"
                    /\ Len(line.idx) = 4
                    /\ \A c \in 1..4 : line.idx[c] \in (8 * k + 1)..(8 * k + 8)
       /\ \A m \in 1..n :
            objContent[m].kind = "f" =>
              \A c \in 1..Len(objContent[m].idx) :
                /\ objContent[m].idx[c] >= 1
                /\ objContent[m].idx[c] <= VerticesBefore(m)

\* A result with three walls and a door has been exported: the last face line
\* uses indices of the third wall's vertices.
C15_Witness ==
  /\ pc = "exported"
  /\ Len(processingResult.walls) = 3
  /\ Len(processingResult.doors) = 1
  /\ Len(objContent) = 43
  /\ objContent[43].kind = "f"
  /\ objContent[43].idx = <<18, 22, 23, 19>>

(***************************************************************************)
(* C16.  Every point of a Contour findContours returns is an edge pixel of *)
(* the mask, every point but the first is 8-adjacent to a point before it  *)
(* in the Contour, and the first point is the pixel at which the raster    *)
(* scan started the trace (the first of the Contour's pixels in raster     *)
(* order).  The same holds for the region being traced, whose newest point *)
(* is an edge pixel next to an earlier one, and a Contour is emitted as    *)
(* the region was traced.                                                  *)
(***************************************************************************)
Adjacent8(p, q) ==
  /\ p # q
  /\ p.x - q.x \in {-1, 0, 1}
  /\ p.y - q.y \in {-1, 0, 1}

RasterBefore(p, q) == p.y < q.y \/ (p.y = q.y /\ p.x < q.x)

\* Point k of c is an edge pixel, and the first point or next to an earlier one.
Attached(c, k) ==
  /\ c[k].x \in 0..(edges.width - 1) /\ c[k].y \in 0..(edges.height - 1)
  /\ IsEdge(edges, c[k].x, c[k].y)
  /\ k > 1 => \E d \in 1..(k - 1) : Adjacent8(c[k], c[k - d])

C16_Connected ==
  /\ [](/\ pc = "done" =>
             \A n \in 1..Len(contours) :
               /\ \A k \in 1..Len(contours[n]) : Attached(contours[n], k)
               /\ \A k \in 2..Len(contours[n]) :
                    RasterBefore(contours[n][1], contours[n][k])
        /\ (pc = "trace" /\ contour # <<>>) =>
             /\ contour[1] = Point(x, y)
             /\ Attached(contour, Len(contour)))
  /\ [][contours' # contours =>
          /\ contours' = Append(contours, contour)
          /\ contour[1] = Point(x, y)]_vars

\* findContours has returned a staircase of 12 pixels joined corner to corner,
\* and the flood fill has marked pixels visited that are no edge pixels.
C16_Witness ==
  /\ pc = "done"
  /\ Len(contours) = 1
  /\ Len(contours[1]) = 12
  /\ \A k \in 2..12 :
       /\ contours[1][k].x # contours[1][k - 1].x
       /\ contours[1][k].y # contours[1][k - 1].y
  /\ \E v \in visited : ~IsEdge(edges, v[1], v[2])

(***************************************************************************)
(* C17.  findContours returns, and every call of traceContour returns to   *)
(* the scan.  The scan handles the pixels one by one in row-major order    *)
(* and has passed all of them when it ends; the visited set only grows;    *)
(* an iteration of traceContour's loop either removes an already-visited   *)
(* pixel from the stack and changes nothing else, or marks the pixel it    *)
(* popped, which was not visited before.                                   *)
(***************************************************************************)
ScanPosition == y * edges.width + x

C17_Termination ==
  /\ <>(pc = "done")
  /\ (pc = "trace") ~> (pc = "scan")
  /\ [](pc = "done" => ScanPosition = edges.width * edges.height)
  /\ [][/\ visited \subseteq visited'
        /\ ScanPosition' \in {ScanPosition, ScanPosition + 1}
        /\ (pc = "scan" /\ pc' = "scan" /\ y' = y) => ScanPosition' = ScanPosition + 1
        /\ (pc = "trace" /\ pc' = "scan") => ScanPosition' = ScanPosition + 1
        /\ (pc = "trace" /\ pc' = "trace") =>
             LET point == stack[Len(stack)]
             IN \/ /\ Key(point.x, point.y) \in visited
                   /\ visited' = visited
                   /\ contour' = contour
                   /\ stack' = SubSeq(stack, 1, Len(stack) - 1)
                \/ /\ Key(point.x, point.y) \notin visited
                   /\ visited' = visited \cup {Key(point.x, point.y)}]_vars

\* findContours has returned after tracing two regions, one kept and one
\* dropped, with every pixel of the 12 x 8 image passed.
C17_Witness ==
  /\ pc = "done"
  /\ edges.width = 12 /\ edges.height = 8
  /\ Len(contours) = 1 /\ Len(dropped) = 1
  /\ y = 8 /\ x = 0
  /\ stack = <<>>

(***************************************************************************)
(* C18.  isProcessing is true in every state in which the promise of some  *)
(* call of handleFileSelect is still pending, and it is false once every   *)
(* call made has run to its end.                                           *)
(***************************************************************************)
C18_BusyWhileInFlight ==
  /\ (\E i \in Calls : calls[i].promise = "pending") => isProcessing
  /\ (Calls # {} /\ \A i \in Calls : calls[i].pc = "returned") => ~isProcessing

====
